---- MODULE Spec2Model ----
(***************************************************************************)
(* Model of code_optimizer.py: the AST rewriter CodeOptimizer (a           *)
(* ast.NodeTransformer) and optimize_code, which reads a file, parses it,  *)
(* rewrites the tree, serialises it and overwrites the file.               *)
(*                                                                         *)
(* A syntax node is a record whose field "kind" is the name of its ast     *)
(* class and whose other fields are the fields of that class that the      *)
(* traversal can reach.  Location attributes and the expression context    *)
(* (Load/Store) are not fields the rewriter reads and are left out.        *)
(***************************************************************************)
EXTENDS Integers, Sequences, FiniteSets, TLC

(* ---------------- bounds of the input universe ---------------- *)
MaxDepth == 2      \* nesting depth of calls in an expression statement
MaxStmts == 2      \* number of statements of a module body
MaxPasses == 2     \* number of times optimize_code is run on the file

(* ---------------- node constructors (ast classes) ---------------- *)
Name(id) == [kind |-> "Name", id |-> id]
Constant(value) == [kind |-> "Constant", value |-> value]
Attribute(value, attr) == [kind |-> "Attribute", value |-> value, attr |-> attr]
Tuple(elts) == [kind |-> "Tuple", elts |-> elts]
keyword(arg, value) == [kind |-> "keyword", arg |-> arg, value |-> value]
Call(func, args, keywords) ==
    [kind |-> "Call", func |-> func, args |-> args, keywords |-> keywords]
comprehension(target, iter, ifs) ==
    [kind |-> "comprehension", target |-> target, iter |-> iter, ifs |-> ifs]
ListComp(elt, generators) ==
    [kind |-> "ListComp", elt |-> elt, generators |-> generators]
Expr(value) == [kind |-> "Expr", value |-> value]
Pass == [kind |-> "Pass"]
For(target, iter, body, orelse) ==
    [kind |-> "For", target |-> target, iter |-> iter, body |-> body, orelse |-> orelse]
If(test, body, orelse) ==
    [kind |-> "If", test |-> test, body |-> body, orelse |-> orelse]
arg(a) == [kind |-> "arg", arg |-> a]
arguments(args) == [kind |-> "arguments", args |-> args]
FunctionDef(name, args, body, decorator_list) ==
    [kind |-> "FunctionDef", name |-> name, args |-> args, body |-> body,
     decorator_list |-> decorator_list]
Module(body) == [kind |-> "Module", body |-> body]

\* A Python list stored where a single node is expected (what setattr does
\* with a list returned by a visitor for a non-list field).
ListValue(elts) == [kind |-> "list", elts |-> elts]

(* ---------------- outcome of a visitor call ---------------- *)
\* A visitor returns a node, returns a list of nodes, or raises.
Ret(node) == [raised |-> FALSE, isList |-> FALSE, out |-> <<node>>]
RetList(nodes) == [raised |-> FALSE, isList |-> TRUE, out |-> nodes]
Raise == [raised |-> TRUE, isList |-> FALSE, out |-> <<>>]

\* ast.Expr(value=ast.Call(func=ast.Name(id="print"), args=[ast.Constant("Hello")], keywords=[]))
HelloStmt == Expr(Call(Name("print"), <<Constant("Hello")>>, <<>>))

(* ---------------- the _fields of each ast class ---------------- *)
\* Fields in the order ast.iter_fields yields them; list |-> TRUE for the
\* fields whose value is a Python list of nodes.
Fld(name, isList) == [name |-> name, list |-> isList]
Fields(kind) ==
    CASE kind = "Module" -> <<Fld("body", TRUE)>>
      [] kind = "Expr" -> <<Fld("value", FALSE)>>
      [] kind = "If" -> <<Fld("test", FALSE), Fld("body", TRUE), Fld("orelse", TRUE)>>
      [] kind = "For" ->
            <<Fld("target", FALSE), Fld("iter", FALSE), Fld("body", TRUE), Fld("orelse", TRUE)>>
      [] kind = "FunctionDef" ->
            <<Fld("args", FALSE), Fld("body", TRUE), Fld("decorator_list", TRUE)>>
      [] kind = "arguments" -> <<Fld("args", TRUE)>>
      [] kind = "Call" -> <<Fld("func", FALSE), Fld("args", TRUE), Fld("keywords", TRUE)>>
      [] kind = "keyword" -> <<Fld("value", FALSE)>>
      [] kind = "ListComp" -> <<Fld("elt", FALSE), Fld("generators", TRUE)>>
      [] kind = "comprehension" ->
            <<Fld("target", FALSE), Fld("iter", FALSE), Fld("ifs", TRUE)>>
      [] kind = "Attribute" -> <<Fld("value", FALSE)>>
      [] kind = "Tuple" -> <<Fld("elts", TRUE)>>
      [] kind = "list" -> <<Fld("elts", TRUE)>>
      [] OTHER -> <<>>

(* ---------------- CodeOptimizer: the three rules ---------------- *)
\* Variants of visit_For with a slip in the replacement: the loop body is
\* returned in place of the fixed statement; the fixed statement is returned
\* once per iteration of range(2); the call is returned without its ast.Expr.
visit_For_body(node) ==
    IF /\ node.target.kind = "Name"
       /\ node.iter.kind = "Call"
       /\ node.iter.func.kind = "Name"
       /\ node.iter.func.id = "range"
       /\ Len(node.body) = 1
       /\ node.body[1].kind = "Expr"
    THEN IF node.body[1].value.kind = "Call"
         THEN IF "id" \notin DOMAIN node.body[1].value.func
              THEN Raise
              ELSE IF node.body[1].value.func.id = "print"
                   THEN RetList(node.body)
                   ELSE Ret(node)
         ELSE Ret(node)
    ELSE Ret(node)
visit_For_unrolled(node) ==
    IF /\ node.target.kind = "Name"
       /\ node.iter.kind = "Call"
       /\ node.iter.func.kind = "Name"
       /\ node.iter.func.id = "range"
       /\ Len(node.body) = 1
       /\ node.body[1].kind = "Expr"
    THEN IF node.body[1].value.kind = "Call"
         THEN IF "id" \notin DOMAIN node.body[1].value.func
              THEN Raise
              ELSE IF node.body[1].value.func.id = "print"
                   THEN RetList(<<HelloStmt, HelloStmt>>)
                   ELSE Ret(node)
         ELSE Ret(node)
    ELSE Ret(node)
visit_For_bare(node) ==
    IF /\ node.target.kind = "Name"
       /\ node.iter.kind = "Call"
       /\ node.iter.func.kind = "Name"
       /\ node.iter.func.id = "range"
       /\ Len(node.body) = 1
       /\ node.body[1].kind = "Expr"
    THEN IF node.body[1].value.kind = "Call"
         THEN IF "id" \notin DOMAIN node.body[1].value.func
              THEN Raise
              ELSE IF node.body[1].value.func.id = "print"
                   THEN RetList(<<HelloStmt.value>>)
                   ELSE Ret(node)
         ELSE Ret(node)
    ELSE Ret(node)

\* CodeOptimizer.visit_For.  The body of the loop is not visited.  Reading
\* ".id" of a callee that is not an ast.Name raises AttributeError.
visit_For(node) ==
    IF /\ node.target.kind = "Name"
       /\ node.iter.kind = "Call"
       /\ node.iter.func.kind = "Name"
       /\ node.iter.func.id = "range"
       /\ Len(node.body) = 1
       /\ node.body[1].kind = "Expr"
    THEN IF node.body[1].value.kind = "Call"
         THEN IF "id" \notin DOMAIN node.body[1].value.func
              THEN Raise
              ELSE IF node.body[1].value.func.id = "print"
                   THEN RetList(<<HelloStmt>>)
                   ELSE Ret(node)
         ELSE Ret(node)
    ELSE Ret(node)

\* Variant of visit_Call that builds a new "set" call from the inner call's
\* positional arguments instead of returning the inner call.
visit_Call_rebuilt(node) ==
    IF node.func.kind = "Name" /\ node.func.id = "list"
    THEN IF Len(node.args) = 1 /\ node.args[1].kind = "Call"
         THEN IF node.args[1].func.kind = "Name" /\ node.args[1].func.id = "set"
              THEN Ret(Call(Name("set"), node.args[1].args, <<>>))
              ELSE Ret(node)
         ELSE Ret(node)
    ELSE Ret(node)

\* CodeOptimizer.visit_Call.  Neither the callee, the arguments nor the
\* keywords are visited, and node.keywords is never read.
visit_Call(node) ==
    IF node.func.kind = "Name" /\ node.func.id = "list"
    THEN IF Len(node.args) = 1 /\ node.args[1].kind = "Call"
         THEN IF node.args[1].func.kind = "Name" /\ node.args[1].func.id = "set"
              THEN Ret(node.args[1])
              ELSE Ret(node)
         ELSE Ret(node)
    ELSE Ret(node)

\* Variant of visit_FunctionDef that inserts the decorator at the front.
visit_FunctionDef_front(node) ==
    IF node.name = "fib"
    THEN Ret([node EXCEPT !.decorator_list = <<Name("lru_cache")>> \o @])
    ELSE Ret(node)

\* CodeOptimizer.visit_FunctionDef.  The body is not visited.
visit_FunctionDef(node) ==
    IF node.name = "fib"
    THEN Ret([node EXCEPT !.decorator_list = Append(@, Name("lru_cache"))])
    ELSE Ret(node)

(* ---------------- ast.NodeTransformer: dispatch and traversal ---------------- *)
RECURSIVE visit(_), generic_visit_fields(_, _), generic_visit_list(_)

\* NodeTransformer.generic_visit: every field in order; visit(...) of a list
\* field's elements, a returned list being spliced in (extend) and a returned
\* node appended; visit(...) of a node field, the result stored by setattr.
generic_visit(node) == generic_visit_fields(node, Fields(node.kind))

\* CodeOptimizer.visit_ListComp
visit_ListComp(node) == generic_visit(node)

\* The loop "for value in old_value" of generic_visit.
generic_visit_list(old_value) ==
    IF old_value = <<>> THEN RetList(<<>>)
    ELSE LET r == visit(Head(old_value))
         IN IF r.raised THEN Raise
            ELSE LET rest == generic_visit_list(Tail(old_value))
                 IN IF rest.raised THEN Raise ELSE RetList(r.out \o rest.out)

\* The loop "for field, old_value in iter_fields(node)" of generic_visit.
generic_visit_fields(node, fields) ==
    IF fields = <<>> THEN Ret(node)
    ELSE LET f == Head(fields).name
         IN IF Head(fields).list
            THEN LET r == generic_visit_list(node[f])
                 IN IF r.raised THEN Raise
                    ELSE generic_visit_fields([node EXCEPT ![f] = r.out], Tail(fields))
            ELSE LET r == visit(node[f])
                 IN IF r.raised THEN Raise
                    ELSE generic_visit_fields(
                            [node EXCEPT ![f] = IF r.isList THEN ListValue(r.out)
                                                ELSE r.out[1]],
                            Tail(fields))

\* NodeVisitor.visit: getattr(self, "visit_" + class name, self.generic_visit)
visit(node) ==
    CASE node.kind = "For" -> visit_For(node)
      [] node.kind = "ListComp" -> visit_ListComp(node)
      [] node.kind = "Call" -> visit_Call(node)
      [] node.kind = "FunctionDef" -> visit_FunctionDef(node)
      [] OTHER -> generic_visit(node)

(* ---------------- the grammar: what ast.unparse output parses back ---------------- *)
ExprKinds == {"Name", "Constant", "Attribute", "Tuple", "Call", "ListComp"}
StmtKinds == {"Expr", "Pass", "For", "If", "FunctionDef"}

\* The fields a node of each class must carry.
RequiredFields(kind) ==
    CASE kind = "Name" -> {"kind", "id"}
      [] kind = "Constant" -> {"kind", "value"}
      [] kind = "Attribute" -> {"kind", "value", "attr"}
      [] kind = "Tuple" -> {"kind", "elts"}
      [] kind = "Call" -> {"kind", "func", "args", "keywords"}
      [] kind = "keyword" -> {"kind", "arg", "value"}
      [] kind = "ListComp" -> {"kind", "elt", "generators"}
      [] kind = "comprehension" -> {"kind", "target", "iter", "ifs"}
      [] kind = "Expr" -> {"kind", "value"}
      [] kind = "Pass" -> {"kind"}
      [] kind = "For" -> {"kind", "target", "iter", "body", "orelse"}
      [] kind = "If" -> {"kind", "test", "body", "orelse"}
      [] kind = "FunctionDef" -> {"kind", "name", "args", "body", "decorator_list"}
      [] kind = "arguments" -> {"kind", "args"}
      [] kind = "arg" -> {"kind", "arg"}
      [] kind = "Module" -> {"kind", "body"}
      [] OTHER -> {}

RECURSIVE ValidExpr(_), ValidStmt(_)

ValidExprs(es) == \A i \in 1..Len(es) : ValidExpr(es[i])
ValidStmts(ss) == \A i \in 1..Len(ss) : ValidStmt(ss[i])

\* An expression of the grammar: an expression class with its fields, every
\* child an expression of the grammar.
ValidExpr(e) ==
    /\ e.kind \in ExprKinds
    /\ DOMAIN e = RequiredFields(e.kind)
    /\ CASE e.kind = "Attribute" -> ValidExpr(e.value)
         [] e.kind = "Tuple" -> ValidExprs(e.elts)
         [] e.kind = "Call" ->
               /\ ValidExpr(e.func)
               /\ ValidExprs(e.args)
               /\ \A i \in 1..Len(e.keywords) :
                     /\ e.keywords[i].kind = "keyword"
                     /\ DOMAIN e.keywords[i] = RequiredFields("keyword")
                     /\ ValidExpr(e.keywords[i].value)
         [] e.kind = "ListComp" ->
               /\ ValidExpr(e.elt)
               /\ Len(e.generators) >= 1
               /\ \A i \in 1..Len(e.generators) :
                     /\ e.generators[i].kind = "comprehension"
                     /\ DOMAIN e.generators[i] = RequiredFields("comprehension")
                     /\ ValidExpr(e.generators[i].target)
                     /\ ValidExpr(e.generators[i].iter)
                     /\ ValidExprs(e.generators[i].ifs)
         [] OTHER -> TRUE

\* A statement of the grammar: a statement class with its fields, every
\* expression child an expression, every statement child a statement, and the
\* body of a compound statement not empty.
ValidStmt(s) ==
    /\ s.kind \in StmtKinds
    /\ DOMAIN s = RequiredFields(s.kind)
    /\ CASE s.kind = "Expr" -> ValidExpr(s.value)
         [] s.kind = "For" ->
               /\ ValidExpr(s.target) /\ ValidExpr(s.iter)
               /\ Len(s.body) >= 1 /\ ValidStmts(s.body) /\ ValidStmts(s.orelse)
         [] s.kind = "If" ->
               /\ ValidExpr(s.test)
               /\ Len(s.body) >= 1 /\ ValidStmts(s.body) /\ ValidStmts(s.orelse)
         [] s.kind = "FunctionDef" ->
               /\ s.args.kind = "arguments"
               /\ \A i \in 1..Len(s.args.args) : s.args.args[i].kind = "arg"
               /\ Len(s.body) >= 1 /\ ValidStmts(s.body)
               /\ ValidExprs(s.decorator_list)
         [] OTHER -> TRUE

ValidModule(t) ==
    /\ t.kind = "Module"
    /\ DOMAIN t = RequiredFields("Module")
    /\ ValidStmts(t.body)

(* ---------------- source text ---------------- *)
\* The content of a file is text; text is kept as whether it is valid under
\* the grammar and, when it is, the tree it denotes.
NoTree == [kind |-> "None"]
NoText == [kind |-> "None"]
Text(valid, t) == [kind |-> "text", valid |-> valid, ast |-> t]

\* ast.unparse: the text of a tree; the text is valid Python exactly when the
\* tree is a tree of the grammar.
unparse(t) == Text(ValidModule(t), t)

(* ---------------- the input files ---------------- *)
values == Name("values")

\* Callees of the calls of an expression statement: the two names the
\* set-wrapping rule reads and a callee that is not a simple name.
Callees == {Name("list"), Name("set"), Attribute(Name("obj"), "list")}

\* A call carries no keyword argument or one.
Keywords == {<<>>, <<keyword("key", Name("k"))>>}

\* Calls nested at most d deep: no argument, two arguments, or one argument
\* that is a name or a call nested at most d - 1 deep.
RECURSIVE Calls(_)
Calls(d) ==
    IF d = 0 THEN {}
    ELSE LET sub == {values} \cup Calls(d - 1)
         IN {Call(f, a, k) : f \in Callees,
                             a \in {<<>>, <<values, values>>} \cup {<<e>> : e \in sub},
                             k \in Keywords}

ListSet == Call(Name("list"), <<Call(Name("set"), <<values>>, <<>>)>>, <<>>)

ListComps ==
    {ListComp(e, <<comprehension(Name("i"), it, <<>>)>>) :
        e \in {values, ListSet}, it \in {values, ListSet}}

ExprStmts == {Expr(e) : e \in {values} \cup Calls(MaxDepth) \cup ListComps}

\* for <target> in <iter>: <body>
Targets == {Name("i"), Tuple(<<Name("a"), Name("b")>>)}
Iters ==
    {Call(Name("range"), <<Constant(3)>>, <<>>),
     Call(Name("range"), <<values, values>>, <<keyword("key", Name("k"))>>),
     Call(Name("set"), <<values>>, <<>>),
     Call(Attribute(Name("obj"), "range"), <<Constant(3)>>, <<>>),
     values}
PrintLoop ==
    For(Name("i"), Call(Name("range"), <<Constant(3)>>, <<>>),
        <<Expr(Call(Name("print"), <<Name("i")>>, <<>>))>>, <<>>)
Bodies ==
    {<<Expr(Call(Name("print"), <<Name("i")>>, <<>>))>>,
     <<Expr(Call(Name("print"), <<ListSet>>, <<keyword("key", Name("k"))>>))>>,
     <<Expr(Call(Name("set"), <<values>>, <<>>))>>,
     <<Expr(ListSet)>>,
     <<Expr(Call(Attribute(Name("obj"), "log"), <<Name("i")>>, <<>>))>>,
     <<Expr(values)>>,
     <<Pass>>,
     <<PrintLoop>>,
     <<Expr(Call(Name("print"), <<Name("i")>>, <<>>)), Expr(values)>>}
Loops == {For(t, it, b, <<>>) : t \in Targets, it \in Iters, b \in Bodies}

FibDef == FunctionDef("fib", arguments(<<arg("n")>>), <<Expr(ListSet)>>, <<>>)
FunctionDefs ==
    {FunctionDef(n, arguments(a), b, d) :
        n \in {"fib", "main"},
        a \in {<<>>, <<arg("n")>>},
        b \in {<<Pass>>, <<Expr(ListSet)>>, <<PrintLoop, Expr(values)>>},
        d \in {<<>>, <<Name("lru_cache")>>, <<Name("staticmethod")>>,
               <<Name("staticmethod"), Name("lru_cache")>>}}

Ifs ==
    {If(t, b, e) :
        t \in {values, ListSet},
        b \in {<<PrintLoop>>, <<Expr(ListSet)>>, <<Expr(values), PrintLoop, Pass>>, <<FibDef>>},
        e \in {<<>>, <<PrintLoop>>}}

Statements == ExprStmts \cup Loops \cup FunctionDefs \cup Ifs \cup {Pass}

\* The statements of the modules of more than one statement.
Siblings ==
    {PrintLoop,
     For(Tuple(<<Name("a"), Name("b")>>), Call(Name("range"), <<Constant(3)>>, <<>>),
         <<Expr(Call(Name("print"), <<Name("i")>>, <<>>))>>, <<>>),
     For(Name("i"), values, <<Expr(ListSet)>>, <<>>),
     Expr(ListSet),
     Expr(values),
     FibDef,
     Pass}

RECURSIVE SeqsOfLen(_, _)
SeqsOfLen(S, n) ==
    IF n = 0 THEN {<<>>}
    ELSE {<<x>> \o r : x \in S, r \in SeqsOfLen(S, n - 1)}

ModuleBodies ==
    {<<>>} \cup {<<st>> : st \in Statements}
           \cup UNION {SeqsOfLen(Siblings, n) : n \in 2..MaxStmts}

\* A file holds valid text, the text of one of the modules, or text that is
\* not valid Python.
Texts == {Text(TRUE, Module(b)) : b \in ModuleBodies} \cup {Text(FALSE, NoTree)}

(* ---------------- optimize_code ---------------- *)
VARIABLES
    file,            \* the stored content of the file at file_path
    original,        \* the content of the file when this run of optimize_code began
    passes,          \* the number of runs of optimize_code begun on the file
    pc,              \* the position of the run
    source_code,     \* local: the text read
    tree,            \* local: the tree ast.parse returned, as it was returned
    optimized_tree,  \* local: the tree optimizer.visit returned
    optimized_code   \* local: the text ast.unparse returned

vars == <<file, original, passes, pc, source_code, tree, optimized_tree, optimized_code>>

Init ==
    /\ file \in Texts
    /\ original = file
    /\ passes = 1
    /\ pc = "start"
    /\ source_code = NoText
    /\ tree = NoTree
    /\ optimized_tree = NoTree
    /\ optimized_code = NoText

\* with open(file_path, "r") as file: source_code = file.read()
Read ==
    /\ pc = "start"
    /\ source_code' = file
    /\ pc' = "read"
    /\ UNCHANGED <<file, original, passes, tree, optimized_tree, optimized_code>>

\* tree = ast.parse(source_code), the text being valid
Parse ==
    /\ pc = "read"
    /\ source_code.valid
    /\ tree' = source_code.ast
    /\ pc' = "parsed"
    /\ UNCHANGED <<file, original, passes, source_code, optimized_tree, optimized_code>>

\* ast.parse raises SyntaxError (or ValueError); the except clause prints
\* "Failed to optimize" and optimize_code returns.
ParseFail ==
    /\ pc = "read"
    /\ ~source_code.valid
    /\ pc' = "failed"
    /\ UNCHANGED <<file, original, passes, source_code, tree, optimized_tree, optimized_code>>

\* optimized_tree = CodeOptimizer().visit(tree), no visitor raising
Visit ==
    /\ pc = "parsed"
    /\ ~visit(tree).raised
    /\ optimized_tree' = visit(tree).out[1]
    /\ pc' = "visited"
    /\ UNCHANGED <<file, original, passes, source_code, tree, optimized_code>>

\* Variant of VisitRaise for a file opened for writing before the rewrite: the
\* open has truncated the file when the visitor raises.
VisitRaise_truncated ==
    /\ pc = "parsed"
    /\ visit(tree).raised
    /\ file' = Text(TRUE, Module(<<>>))
    /\ pc' = "crashed"
    /\ UNCHANGED <<original, passes, source_code, tree, optimized_tree, optimized_code>>

\* A visitor raises AttributeError, which except (SyntaxError, ValueError)
\* does not catch: the exception leaves optimize_code.
VisitRaise ==
    /\ pc = "parsed"
    /\ visit(tree).raised
    /\ pc' = "crashed"
    /\ UNCHANGED <<file, original, passes, source_code, tree, optimized_tree, optimized_code>>

\* ast.fix_missing_locations(optimized_tree); optimized_code = ast.unparse(optimized_tree)
Unparse ==
    /\ pc = "visited"
    /\ optimized_code' = unparse(optimized_tree)
    /\ pc' = "unparsed"
    /\ UNCHANGED <<file, original, passes, source_code, tree, optimized_tree>>

\* with open(file_path, "w") as file: file.write(optimized_code)
Write ==
    /\ pc = "unparsed"
    /\ file' = optimized_code
    /\ pc' = "written"
    /\ UNCHANGED <<original, passes, source_code, tree, optimized_tree, optimized_code>>

\* The program is run on the same file again (process_python_file calls
\* optimize_code once per invocation).
Rerun ==
    /\ pc \in {"written", "failed", "crashed"}
    /\ passes < MaxPasses
    /\ passes' = passes + 1
    /\ original' = file
    /\ pc' = "start"
    /\ source_code' = NoText
    /\ tree' = NoTree
    /\ optimized_tree' = NoTree
    /\ optimized_code' = NoText
    /\ UNCHANGED file

Next ==
    \/ Read
    \/ Parse
    \/ ParseFail
    \/ Visit
    \/ VisitRaise
    \/ Unparse
    \/ Write
    \/ Rerun

Spec == Init /\ [][Next]_vars

(* ---------------- the nodes of a tree ---------------- *)
RECURSIVE NodesOf(_), NodesOfList(_), NodesOfFields(_, _)

\* ast.walk: every node of the tree rooted at node, as a sequence.
NodesOf(node) == <<node>> \o NodesOfFields(node, Fields(node.kind))

NodesOfList(nodes) ==
    IF nodes = <<>> THEN <<>>
    ELSE NodesOf(Head(nodes)) \o NodesOfList(Tail(nodes))

NodesOfFields(node, fields) ==
    IF fields = <<>> THEN <<>>
    ELSE (IF Head(fields).list THEN NodesOfList(node[Head(fields).name])
          ELSE NodesOf(node[Head(fields).name]))
         \o NodesOfFields(node, Tail(fields))

\* The nodes of class kind of the tree the run parsed.
Parsed(kind) ==
    LET all == NodesOf(tree)
    IN {all[i] : i \in {j \in 1..Len(all) : all[j].kind = kind}}

\* Every input is valid Python.
InputsValid == pc = "parsed" => ValidModule(tree)

(* ======================= the claims ======================= *)

\* C1. Idempotence: rewriting the rewritten tree yields the rewritten tree,
\* rewrite(rewrite(t)) = rewrite(t), also for trees holding a function
\* declaration named "fib", whose decorator list is the same after the
\* second pass as after the first.
Idempotence ==
    pc = "visited" =>
        LET again == visit(optimized_tree)
        IN ~again.raised /\ again.out = <<optimized_tree>>

\* C2. Precondition exactness of the set-wrapping rule: visit_Call returns a
\* call to "list" unchanged when it has a number of positional arguments other
\* than one, or when the outer "list" call or the inner "set" call carries a
\* keyword argument.
SetWrapInexact(c) ==
    /\ c.func = Name("list")
    /\ \/ Len(c.args) # 1
       \/ c.keywords # <<>>
       \/ /\ c.args[1].kind = "Call"
          /\ c.args[1].func = Name("set")
          /\ c.args[1].keywords # <<>>
SetWrapExactness ==
    pc = "parsed" =>
        \A c \in Parsed("Call") : SetWrapInexact(c) => visit_Call(c) = Ret(c)

\* C3. The range-loop rule passes every other loop through: for every loop
\* that is not (iterable a call to "range", body exactly one expression
\* statement wrapping a call, callee the simple name "print"), visit_For
\* returns the loop unchanged and does not raise.
RangePrintShape(n) ==
    /\ n.iter.kind = "Call"
    /\ n.iter.func = Name("range")
    /\ Len(n.body) = 1
    /\ n.body[1].kind = "Expr"
    /\ n.body[1].value.kind = "Call"
    /\ n.body[1].value.func = Name("print")
LoopPassThrough ==
    pc = "parsed" =>
        \A n \in Parsed("For") : ~RangePrintShape(n) => visit_For(n) = Ret(n)

\* C4. Traversal completeness: one pass evaluates every node against the
\* rules, children before parents, so that no node on which the set-wrapping
\* rule or the range-loop rule acts is left in the rewritten tree, whether it
\* lies in a loop body, in the arguments of another call or in a function body.
RuleActsOn(n) ==
    \/ n.kind = "Call" /\ visit_Call(n) # Ret(n)
    \/ n.kind = "For" /\ visit_For(n) # Ret(n)
TraversalComplete ==
    pc = "visited" =>
        LET left == NodesOf(optimized_tree)
        IN \A i \in 1..Len(left) : ~RuleActsOn(left[i])

\* C5. No partial write: the file is overwritten only after parse, rewrite
\* and serialize have all completed; when parsing fails or a visitor raises
\* during the rewrite, the file holds exactly its original content and no
\* output text has been produced.
NoPartialWrite ==
    /\ file # original =>
          /\ pc = "written"
          /\ source_code.valid
          /\ tree # NoTree
          /\ optimized_tree # NoTree
          /\ file = optimized_code
    /\ pc \in {"failed", "crashed"} => file = original /\ optimized_code = NoText
RewriteFailed == pc = "crashed" /\ tree # NoTree /\ file = original

\* C6. Redundant set-wrapping elimination: for a call to the simple name
\* "list" with exactly one positional argument and no keyword, the argument
\* being a call to the simple name "set", visit_Call returns the inner call
\* itself, its arguments as they were; as an expression statement of the
\* module, list(set(...)) becomes that inner call.
SetWrapShape(c) ==
    /\ c.func = Name("list")
    /\ Len(c.args) = 1
    /\ c.keywords = <<>>
    /\ c.args[1].kind = "Call"
    /\ c.args[1].func = Name("set")
SetWrapElimination ==
    /\ pc = "parsed" =>
          \A c \in Parsed("Call") : SetWrapShape(c) => visit_Call(c) = Ret(c.args[1])
    /\ pc = "visited" =>
          \A i \in 1..Len(tree.body) :
             (/\ tree.body[i].kind = "Expr"
              /\ tree.body[i].value.kind = "Call"
              /\ SetWrapShape(tree.body[i].value))
             => /\ i <= Len(optimized_tree.body)
                /\ optimized_tree.body[i] = Expr(tree.body[i].value.args[1])
SetWrapEliminated ==
    /\ pc = "visited"
    /\ \E i \in 1..Len(tree.body) :
          /\ tree.body[i].kind = "Expr"
          /\ tree.body[i].value.kind = "Call"
          /\ SetWrapShape(tree.body[i].value)
          /\ tree.body[i].value.args[1].keywords # <<>>
          /\ optimized_tree.body[i] # tree.body[i]

NamedRangePrintShape(n) == n.target.kind = "Name" /\ RangePrintShape(n)
Tagged(f, g) ==
    /\ g.kind = "FunctionDef"
    /\ g.name = f.name
    /\ g.args = f.args
    /\ g.body = f.body
    /\ IF f.name = "fib"
       THEN /\ Len(g.decorator_list) = Len(f.decorator_list) + 1
            /\ SubSeq(g.decorator_list, 1, Len(f.decorator_list)) = f.decorator_list
            /\ g.decorator_list[Len(g.decorator_list)] = Name("lru_cache")
       ELSE g.decorator_list = f.decorator_list
MemoTagging ==
    /\ pc = "parsed" =>
          \A f \in Parsed("FunctionDef") :
             LET r == visit_FunctionDef(f)
             IN ~r.raised /\ ~r.isList /\ Tagged(f, r.out[1])
    /\ pc = "visited" =>
          \A i \in 1..Len(tree.body) :
             tree.body[i].kind = "FunctionDef"
             => /\ i <= Len(optimized_tree.body)
                /\ Tagged(tree.body[i], optimized_tree.body[i])
FibTagged ==
    /\ pc = "visited"
    /\ \E i \in 1..Len(tree.body) :
          /\ tree.body[i].kind = "FunctionDef"
          /\ tree.body[i].name = "fib"
          /\ tree.body[i].decorator_list # <<>>
          /\ tree.body[i].body = <<Expr(ListSet)>>
          /\ Len(optimized_tree.body[i].decorator_list) = Len(tree.body[i].decorator_list) + 1

\* A loop of a statement list that the range-loop rule replaces.
MatchedLoop(st) == st.kind = "For" /\ visit_For(st).isList

\* The statement lists the traversal walks in the modules of the model: the
\* module body and the body and orelse of an If statement of the module.
\* WalkedLists pairs each such list of the parsed tree with the list at the
\* same place of the rewritten tree.
ListPair(old, new) == [old |-> old, new |-> new]
WalkedLists ==
    {ListPair(tree.body, optimized_tree.body)}
    \cup UNION {{ListPair(tree.body[i].body, optimized_tree.body[i].body),
                 ListPair(tree.body[i].orelse, optimized_tree.body[i].orelse)} :
                i \in {j \in 1..Len(tree.body) :
                         /\ j <= Len(optimized_tree.body)
                         /\ tree.body[j].kind = "If"
                         /\ optimized_tree.body[j].kind = "If"}}

\* C9, as claimed. Non-interference: a replacement occupies the position of
\* the node it replaces; a statement list of length n with k matched loops
\* still has length n, and its n - k other statements are the same subtrees
\* in the same order.
OthersSameSubtrees ==
    pc = "visited" =>
        \A p \in WalkedLists :
           (\E k \in 1..Len(p.old) : MatchedLoop(p.old[k])) =>
              /\ Len(p.new) = Len(p.old)
              /\ \A i \in 1..Len(p.old) :
                    i <= Len(p.new) =>
                       IF MatchedLoop(p.old[i]) THEN p.new[i] = HelloStmt
                       ELSE p.new[i] = p.old[i]

\* C9, amended. Non-interference: a replacement occupies the position of the
\* node it replaces; a statement list of length n with k matched loops still
\* has length n, each matched loop's position holds its replacement, and each
\* of the n - k other statements' positions holds, in the same order, what
\* the rewrite of that statement alone yields, which is the same subtree
\* unless a rule acts on that statement or inside it.
NonInterference ==
    pc = "visited" =>
        \A p \in WalkedLists :
           /\ Len(p.new) = Len(p.old)
           /\ \A i \in 1..Len(p.old) :
                 i <= Len(p.new) =>
                    IF MatchedLoop(p.old[i]) THEN p.new[i] = HelloStmt
                    ELSE /\ visit(p.old[i]) = Ret(p.new[i])
                         /\ (\A k \in 1..Len(NodesOf(p.old[i])) :
                               ~RuleActsOn(NodesOf(p.old[i])[k])
                               /\ NodesOf(p.old[i])[k].kind # "FunctionDef")
                            => p.new[i] = p.old[i]
SiblingRewritten ==
    /\ pc = "visited"
    /\ \E i, j \in 1..Len(tree.body) :
          /\ i # j
          /\ MatchedLoop(tree.body[i])
          /\ optimized_tree.body[i] = HelloStmt
          /\ ~MatchedLoop(tree.body[j])
          /\ optimized_tree.body[j] # tree.body[j]

\* C10. Syntactic validity: the rewritten tree of a valid input is a tree of
\* the grammar, so that its serialization parses: a statement is replaced by
\* statements only and an expression by an expression only, every node
\* carries the fields of its class, and every statement list that was not
\* empty is not empty.
SyntacticValidity ==
    /\ pc = "visited" =>
          /\ ValidModule(optimized_tree)
          /\ \A p \in WalkedLists : p.old # <<>> => p.new # <<>>
    /\ pc \in {"unparsed", "written"} => optimized_code.valid
    /\ pc = "written" => file.valid
RewrittenTextWritten ==
    /\ pc = "written"
    /\ file # original
    /\ file.valid

====
